---- MODULE Spec2Model ----
(***************************************************************************)
(* Star Cineplex ticket booking simulation                                 *)
(* (movie_ticket_booking_complete.c).                                      *)
(*                                                                         *)
(* One coordinator (main) initialises a counting semaphore and an array of *)
(* shows, each with its own mutex, creates one thread per user, joins them *)
(* and prints the final report.  Every user thread runs book_ticket:       *)
(* select a show, sem_wait, lock the show's mutex, check and maybe         *)
(* decrement available_tickets, unlock, sem_post, exit.                    *)
(***************************************************************************)
EXTENDS Integers, FiniteSets, Sequences, TLC

(* Bounds of the model: the largest values of the three command-line       *)
(* arguments that are explored, and the largest product users * shows.     *)
MaxUsers == 4
MaxTickets == 2
MaxShows == 2
MaxLoad == 8
(* The threads whose sem_wait or pthread_mutex_lock may return an error:    *)
(* users 1 .. MaxFailing.                                                  *)
MaxFailing == 1

(* int concurrent_limit = 3;  (main)                                       *)
concurrent_limit == 3

Users == 1..MaxUsers
ShowIdx == 1..MaxShows

(* The digits of the command-line arguments.                               *)
DigitChars == <<"0", "1", "2", "3", "4", "5", "6", "7", "8", "9">>

IsDigit(c) == \E d \in 1..10 : DigitChars[d] = c
DigitVal(c) == (CHOOSE d \in 1..10 : DigitChars[d] = c) - 1

RECURSIVE AtoiDigits(_, _, _)
(* atoi: the digits from position i on, up to the first character that is *)
(* no digit, accumulated in base 10.                                       *)
AtoiDigits(str, i, acc) ==
    IF i > Len(str) \/ ~IsDigit(str[i]) THEN acc
    ELSE AtoiDigits(str, i + 1, acc * 10 + DigitVal(str[i]))

RECURSIVE SkipSpaces(_, _)
(* atoi: the position of the first character that is no white space       *)
SkipSpaces(str, i) ==
    IF i <= Len(str) /\ str[i] = " " THEN SkipSpaces(str, i + 1) ELSE i

(* atoi of the C library: leading white space, an optional sign, then the *)
(* longest run of digits; 0 when there is none.  Trailing characters are   *)
(* ignored.  (The explored strings are too short to overflow int.)         *)
atoi(str) ==
    LET i == SkipSpaces(str, 1) IN
    IF i <= Len(str) /\ str[i] = "-" THEN 0 - AtoiDigits(str, i + 1, 0)
    ELSE IF i <= Len(str) /\ str[i] = "+" THEN AtoiDigits(str, i + 1, 0)
    ELSE AtoiDigits(str, i, 0)

(* The decimal numeral of n, for 0 <= n <= 99.                             *)
Numeral(n) ==
    IF n < 10 THEN <<DigitChars[n + 1]>>
    ELSE <<DigitChars[(n \div 10) + 1], DigitChars[(n % 10) + 1]>>

(* The argument strings that are explored for an argument whose explored   *)
(* values go up to max: the numerals 0..max, a negative number, text and   *)
(* the empty string.                                                       *)
ArgStrings(max) ==
    {Numeral(n) : n \in 0..max} \cup {<<"-", "1">>, <<"x">>, <<>>}

(* For the first argument also a number followed by text.                  *)
UsersArgStrings == ArgStrings(MaxUsers) \cup {<<"1", "x">>}

VARIABLES
    argv,                   \* argv[1..argc-1], each a sequence of characters
    mpc,                    \* position of main
    exit_code,              \* -1 while the process runs, else its exit status
    total_users,            \* global int total_users
    total_tickets_per_show, \* global int total_tickets_per_show
    total_shows,            \* global int total_shows
    sem_state,              \* global_semaphore: "uninit", "init", "destroyed"
    sem_value,              \* the semaphore's count
    shows_mem,              \* Show *shows: "null", "alloc", "freed"
    show_id,                \* shows[i].show_id
    available_tickets,      \* shows[i].available_tickets
    initial_tickets,        \* shows[i].initial_tickets
    mutex_state,            \* shows[i].mutex: "uninit", "init", "destroyed"
    mutex_owner,            \* the user holding shows[i].mutex, 0 when free
    threads_mem,            \* pthread_t *threads: "null", "alloc", "freed"
    thread,                 \* threads[i]: "unset", "running", "terminated", "joined"
    mi,                     \* loop index i of the loop main is in (0-based)
    upc,                    \* position of each user thread in book_ticket
    selected_show_index,    \* book_ticket's local selected_show_index (1-based, 0 = not chosen)
    outcome,                \* the result the live thread has printed: "none", "booked", "sold_out"
    selected_log,           \* stdout: number of "Selected Show s" lines, per show
    booked_log,             \* stdout: number of "BOOKING SUCCESSFUL for Show s" lines, per show
    sold_out_log,           \* stdout: number of "SOLD OUT! Show s" lines, per show
    total_booked_tickets    \* display_final_status's total, -1 before the report

vars == <<argv, mpc, exit_code, total_users, total_tickets_per_show, total_shows,
          sem_state, sem_value, shows_mem, show_id, available_tickets,
          initial_tickets, mutex_state, mutex_owner, threads_mem, thread, mi,
          upc, selected_show_index, outcome, selected_log, booked_log,
          sold_out_log, total_booked_tickets>>

globals == <<argv, total_users, total_tickets_per_show, total_shows>>
semvars == <<sem_state, sem_value>>
showvars == <<shows_mem, show_id, available_tickets, initial_tickets,
              mutex_state, mutex_owner>>
mainvars == <<mpc, exit_code, mi, threads_mem, thread, total_booked_tickets>>
stdout == <<selected_log, booked_log, sold_out_log>>
uservars == <<upc, selected_show_index, outcome, stdout>>

(* The state before main runs: globals are zero-initialised; the command   *)
(* line has three arguments, or too few or too many.                       *)
Init ==
    /\ \/ \E a1 \in UsersArgStrings, a2 \in ArgStrings(MaxTickets),
             a3 \in ArgStrings(MaxShows) :
            /\ atoi(a1) * atoi(a3) <= MaxLoad
            /\ argv = <<a1, a2, a3>>
       \/ argv \in {<<>>, <<Numeral(1), Numeral(1)>>,
                    <<Numeral(1), Numeral(1), Numeral(1), Numeral(1)>>}
    /\ mpc = "parse_args"
    /\ exit_code = -1
    /\ total_users = 0
    /\ total_tickets_per_show = 0
    /\ total_shows = 0
    /\ sem_state = "uninit"
    /\ sem_value = 0
    /\ shows_mem = "null"
    /\ show_id = [i \in ShowIdx |-> 0]
    /\ available_tickets = [i \in ShowIdx |-> 0]
    /\ initial_tickets = [i \in ShowIdx |-> 0]
    /\ mutex_state = [i \in ShowIdx |-> "uninit"]
    /\ mutex_owner = [i \in ShowIdx |-> 0]
    /\ threads_mem = "null"
    /\ thread = [u \in Users |-> "unset"]
    /\ mi = 0
    /\ upc = [u \in Users |-> "none"]
    /\ selected_show_index = [u \in Users |-> 0]
    /\ outcome = [u \in Users |-> "none"]
    /\ selected_log = [i \in ShowIdx |-> 0]
    /\ booked_log = [i \in ShowIdx |-> 0]
    /\ sold_out_log = [i \in ShowIdx |-> 0]
    /\ total_booked_tickets = -1

(* The process is running: no exit() or return from main, no fatal signal. *)
Alive == exit_code = -1 /\ mpc # "crashed"

(***************************************************************************)
(* main                                                                    *)
(***************************************************************************)

(* exit(EXIT_FAILURE)                                                      *)
ExitFailure ==
    /\ mpc' = "exited"
    /\ exit_code' = 1

(* if (argc != 4) { ... exit(EXIT_FAILURE); }                              *)
WrongArgCount ==
    /\ mpc = "parse_args"
    /\ Len(argv) + 1 # 4
    /\ ExitFailure
    /\ UNCHANGED <<globals, semvars, showvars, mi, threads_mem, thread,
                   total_booked_tickets, uservars>>

(* atoi of the three arguments, then the validation of main.               *)
ParseArgs ==
    /\ mpc = "parse_args"
    /\ Len(argv) + 1 = 4
    /\ LET users == atoi(argv[1])
           tickets == atoi(argv[2])
           nshows == atoi(argv[3])
       IN
        /\ total_users' = users
        /\ total_tickets_per_show' = tickets
        /\ total_shows' = nshows
        /\ IF users <= 0 \/ tickets <= 0 \/ nshows <= 0
           THEN ExitFailure
           ELSE mpc' = "sem_init" /\ exit_code' = exit_code
    /\ UNCHANGED <<argv, semvars, showvars, mi, threads_mem, thread,
                   total_booked_tickets, uservars>>

(* Mutant of SemInit: main goes on without the semaphore initialised.       *)
SemInit_Skipped ==
    /\ mpc = "sem_init"
    /\ sem_value' = concurrent_limit
    /\ mpc' = "malloc_shows"
    /\ UNCHANGED <<exit_code, globals, sem_state, showvars, mi, threads_mem,
                   thread, total_booked_tickets, uservars>>

(* sem_init(&global_semaphore, 0, concurrent_limit) returns 0              *)
SemInit ==
    /\ mpc = "sem_init"
    /\ sem_state' = "init"
    /\ sem_value' = concurrent_limit
    /\ mpc' = "malloc_shows"
    /\ UNCHANGED <<exit_code, globals, showvars, mi, threads_mem, thread,
                   total_booked_tickets, uservars>>

(* sem_init fails: exit(EXIT_FAILURE)                                      *)
SemInitFail ==
    /\ mpc = "sem_init"
    /\ ExitFailure
    /\ UNCHANGED <<globals, semvars, showvars, mi, threads_mem, thread,
                   total_booked_tickets, uservars>>

(* initialize_shows: shows = malloc(...) succeeds                          *)
MallocShows ==
    /\ mpc = "malloc_shows"
    /\ shows_mem' = "alloc"
    /\ mi' = 0
    /\ mpc' = "init_show"
    /\ UNCHANGED <<exit_code, globals, semvars, show_id, available_tickets,
                   initial_tickets, mutex_state, mutex_owner, threads_mem,
                   thread, total_booked_tickets, uservars>>

(* initialize_shows: shows == NULL, exit(EXIT_FAILURE)                     *)
MallocShowsFail ==
    /\ mpc = "malloc_shows"
    /\ ExitFailure
    /\ UNCHANGED <<globals, semvars, showvars, mi, threads_mem, thread,
                   total_booked_tickets, uservars>>

(* initialize_shows: one iteration of the loop, pthread_mutex_init         *)
(* returns 0.  The loop ends when i reaches num_shows.                     *)
InitShow ==
    /\ mpc = "init_show"
    /\ mi < total_shows
    /\ LET i == mi + 1 IN
        /\ show_id' = [show_id EXCEPT ![i] = i]
        /\ available_tickets' = [available_tickets EXCEPT ![i] = total_tickets_per_show]
        /\ initial_tickets' = [initial_tickets EXCEPT ![i] = total_tickets_per_show]
        /\ mutex_state' = [mutex_state EXCEPT ![i] = "init"]
    /\ mi' = mi + 1
    /\ mpc' = IF mi + 1 < total_shows THEN "init_show" ELSE "malloc_threads"
    /\ UNCHANGED <<exit_code, globals, semvars, shows_mem, mutex_owner,
                   threads_mem, thread, total_booked_tickets, uservars>>

(* initialize_shows: pthread_mutex_init fails for show i: the mutexes      *)
(* initialised so far are destroyed, shows is freed, exit(EXIT_FAILURE).   *)
InitShowFail ==
    /\ mpc = "init_show"
    /\ mi < total_shows
    /\ LET i == mi + 1 IN
        /\ show_id' = [show_id EXCEPT ![i] = i]
        /\ available_tickets' = [available_tickets EXCEPT ![i] = total_tickets_per_show]
        /\ initial_tickets' = [initial_tickets EXCEPT ![i] = total_tickets_per_show]
        /\ mutex_state' = [j \in ShowIdx |->
                             IF j < i THEN "destroyed" ELSE mutex_state[j]]
    /\ shows_mem' = "freed"
    /\ ExitFailure
    /\ UNCHANGED <<globals, semvars, mutex_owner, mi, threads_mem, thread,
                   total_booked_tickets, uservars>>

(* cleanup_resources                                                       *)
CleanupResources ==
    /\ IF shows_mem # "null"
       THEN /\ mutex_state' = [j \in ShowIdx |->
                                 IF j <= total_shows THEN "destroyed" ELSE mutex_state[j]]
            /\ shows_mem' = "freed"
       ELSE UNCHANGED <<mutex_state, shows_mem>>
    /\ sem_state' = "destroyed"

(* threads = malloc(...) succeeds                                          *)
MallocThreads ==
    /\ mpc = "malloc_threads"
    /\ threads_mem' = "alloc"
    /\ mi' = 0
    /\ mpc' = "create"
    /\ UNCHANGED <<exit_code, globals, semvars, showvars, thread,
                   total_booked_tickets, uservars>>

(* threads == NULL: cleanup_resources(); exit(EXIT_FAILURE)                *)
MallocThreadsFail ==
    /\ mpc = "malloc_threads"
    /\ CleanupResources
    /\ ExitFailure
    /\ UNCHANGED <<globals, sem_value, show_id, available_tickets,
                   initial_tickets, mutex_owner, mi, threads_mem, thread,
                   total_booked_tickets, uservars>>

(* The creation loop moves on to the next i, or to the join loop.          *)
NextCreate ==
    /\ mi' = IF mi + 1 < total_users THEN mi + 1 ELSE 0
    /\ mpc' = IF mi + 1 < total_users THEN "create" ELSE "join"

(* One iteration of the creation loop: malloc of UserData and              *)
(* pthread_create both succeed; the new thread starts book_ticket.         *)
CreateThread ==
    /\ mpc = "create"
    /\ mi < total_users
    /\ thread' = [thread EXCEPT ![mi + 1] = "running"]
    /\ upc' = [upc EXCEPT ![mi + 1] = "select"]
    /\ NextCreate
    /\ UNCHANGED <<exit_code, globals, semvars, showvars, threads_mem,
                   selected_show_index, outcome, stdout, total_booked_tickets>>

(* user_data == NULL: continue                                             *)
MallocUserDataFail ==
    /\ mpc = "create"
    /\ mi < total_users
    /\ NextCreate
    /\ UNCHANGED <<exit_code, globals, semvars, showvars, threads_mem, thread,
                   total_booked_tickets, uservars>>

(* pthread_create fails: free(user_data); continue.  threads[i] is left    *)
(* as malloc returned it.                                                  *)
PthreadCreateFail ==
    /\ mpc = "create"
    /\ mi < total_users
    /\ NextCreate
    /\ UNCHANGED <<exit_code, globals, semvars, showvars, threads_mem, thread,
                   total_booked_tickets, uservars>>

(* The join loop moves on to the next i, or to the final report.           *)
NextJoin ==
    /\ mi' = IF mi + 1 < total_users THEN mi + 1 ELSE 0
    /\ mpc' = IF mi + 1 < total_users THEN "join" ELSE "report"

(* Mutant of JoinThread: the join returns without waiting for the thread.   *)
JoinThread_NoWait ==
    /\ mpc = "join"
    /\ mi < total_users
    /\ thread[mi + 1] # "unset"
    /\ thread' = [thread EXCEPT ![mi + 1] = "joined"]
    /\ NextJoin
    /\ UNCHANGED <<exit_code, globals, semvars, showvars, threads_mem,
                   total_booked_tickets, uservars>>

(* pthread_join(threads[i], NULL) on a created thread: returns 0 once the  *)
(* thread has terminated.                                                  *)
JoinThread ==
    /\ mpc = "join"
    /\ mi < total_users
    /\ thread[mi + 1] = "terminated"
    /\ thread' = [thread EXCEPT ![mi + 1] = "joined"]
    /\ NextJoin
    /\ UNCHANGED <<exit_code, globals, semvars, showvars, threads_mem,
                   total_booked_tickets, uservars>>

(* pthread_join on threads[i] that no pthread_create ever set: undefined   *)
(* behaviour.  One outcome: the call returns an error and main prints the  *)
(* warning.                                                                *)
JoinUnsetError ==
    /\ mpc = "join"
    /\ mi < total_users
    /\ thread[mi + 1] = "unset"
    /\ NextJoin
    /\ UNCHANGED <<exit_code, globals, semvars, showvars, threads_mem, thread,
                   total_booked_tickets, uservars>>

(* The other outcome: the call dereferences the garbage handle and the     *)
(* process is killed by a signal, with all its threads.                    *)
JoinUnsetCrash ==
    /\ mpc = "join"
    /\ mi < total_users
    /\ thread[mi + 1] = "unset"
    /\ mpc' = "crashed"
    /\ UNCHANGED <<exit_code, globals, semvars, showvars, mi, threads_mem,
                   thread, total_booked_tickets, uservars>>

RECURSIVE SumBooked(_)
(* display_final_status: total_booked_tickets += initial - available over  *)
(* shows[0 .. n-1]                                                         *)
SumBooked(n) ==
    IF n <= 0 THEN 0
    ELSE SumBooked(n - 1) + (initial_tickets[n] - available_tickets[n])

(* display_final_status()                                                  *)
DisplayFinalStatus ==
    /\ mpc = "report"
    /\ total_booked_tickets' = SumBooked(total_shows)
    /\ mpc' = "cleanup"
    /\ UNCHANGED <<exit_code, globals, semvars, showvars, mi, threads_mem,
                   thread, uservars>>

RECURSIVE SumInitial(_)
(* display_final_status: total_initial_tickets += shows[i].initial_tickets *)
SumInitial(n) ==
    IF n <= 0 THEN 0 ELSE SumInitial(n - 1) + initial_tickets[n]

RECURSIVE SumRemaining(_)
(* display_final_status: total_remaining_tickets +=                        *)
(* shows[i].available_tickets                                              *)
SumRemaining(n) ==
    IF n <= 0 THEN 0 ELSE SumRemaining(n - 1) + available_tickets[n]

(* display_final_status: the totals it prints (the TOTAL row and BOOKING   *)
(* STATISTICS): total_users and its three local sums.  It counts nothing   *)
(* else.  The shows are not written after the report, so the two sums read *)
(* from them are the printed ones.                                         *)
FinalReport ==
    [total_users |-> total_users,
     total_initial_tickets |-> SumInitial(total_shows),
     total_remaining_tickets |-> SumRemaining(total_shows),
     total_booked_tickets |-> total_booked_tickets]

(* free(threads); cleanup_resources(); return 0;                           *)
Finish ==
    /\ mpc = "cleanup"
    /\ threads_mem' = "freed"
    /\ CleanupResources
    /\ mpc' = "exited"
    /\ exit_code' = 0
    /\ UNCHANGED <<globals, sem_value, show_id, available_tickets,
                   initial_tickets, mutex_owner, mi, thread,
                   total_booked_tickets, uservars>>

Main ==
    \/ WrongArgCount
    \/ ParseArgs
    \/ SemInit
    \/ SemInitFail
    \/ MallocShows
    \/ MallocShowsFail
    \/ InitShow
    \/ InitShowFail
    \/ MallocThreads
    \/ MallocThreadsFail
    \/ CreateThread
    \/ MallocUserDataFail
    \/ PthreadCreateFail
    \/ JoinThread
    \/ JoinUnsetError
    \/ JoinUnsetCrash
    \/ DisplayFinalStatus
    \/ Finish

(***************************************************************************)
(* book_ticket, run by user thread u                                       *)
(***************************************************************************)

(* int selected_show_index = rand() % user_data->num_shows;                *)
SelectShow(u) ==
    /\ Alive
    /\ upc[u] = "select"
    /\ \E idx \in 1..total_shows :
        /\ selected_show_index' = [selected_show_index EXCEPT ![u] = idx]
        /\ selected_log' = [selected_log EXCEPT ![idx] = @ + 1]
    /\ upc' = [upc EXCEPT ![u] = "sem_wait"]
    /\ UNCHANGED <<mainvars, globals, semvars, showvars, outcome, booked_log,
                   sold_out_log>>

(* Mutant of SemWait: the wait never blocks.                               *)
SemWait_NoBlock(u) ==
    /\ Alive
    /\ upc[u] = "sem_wait"
    /\ sem_value' = sem_value - 1
    /\ upc' = [upc EXCEPT ![u] = "lock"]
    /\ UNCHANGED <<mainvars, globals, sem_state, showvars,
                   selected_show_index, outcome, stdout>>

(* sem_wait(user_data->semaphore): blocks while the count is 0             *)
SemWait(u) ==
    /\ Alive
    /\ upc[u] = "sem_wait"
    /\ sem_value > 0
    /\ sem_value' = sem_value - 1
    /\ upc' = [upc EXCEPT ![u] = "lock"]
    /\ UNCHANGED <<mainvars, globals, sem_state, showvars,
                   selected_show_index, outcome, stdout>>

(* Mutant of MutexLock: the lock is taken even when another thread holds   *)
(* it.                                                                     *)
MutexLock_NoExclusion(u) ==
    /\ Alive
    /\ upc[u] = "lock"
    /\ mutex_owner' = [mutex_owner EXCEPT ![selected_show_index[u]] = u]
    /\ upc' = [upc EXCEPT ![u] = "check"]
    /\ UNCHANGED <<mainvars, globals, semvars, shows_mem, show_id,
                   available_tickets, initial_tickets, mutex_state,
                   selected_show_index, outcome, stdout>>

(* Mutant of MutexLock: one mutex shared by all shows.                     *)
MutexLock_OneGlobalMutex(u) ==
    /\ Alive
    /\ upc[u] = "lock"
    /\ \A i \in ShowIdx : mutex_owner[i] = 0
    /\ mutex_owner' = [mutex_owner EXCEPT ![selected_show_index[u]] = u]
    /\ upc' = [upc EXCEPT ![u] = "check"]
    /\ UNCHANGED <<mainvars, globals, semvars, shows_mem, show_id,
                   available_tickets, initial_tickets, mutex_state,
                   selected_show_index, outcome, stdout>>

(* pthread_mutex_lock(&shows[selected_show_index].mutex): blocks while     *)
(* another thread holds the mutex                                          *)
MutexLock(u) ==
    /\ Alive
    /\ upc[u] = "lock"
    /\ mutex_owner[selected_show_index[u]] = 0
    /\ mutex_owner' = [mutex_owner EXCEPT ![selected_show_index[u]] = u]
    /\ upc' = [upc EXCEPT ![u] = "check"]
    /\ UNCHANGED <<mainvars, globals, semvars, shows_mem, show_id,
                   available_tickets, initial_tickets, mutex_state,
                   selected_show_index, outcome, stdout>>

(* Mutant of CheckTickets: the test is >= 0 instead of > 0.               *)
CheckTickets_OffByOne(u) ==
    /\ Alive
    /\ upc[u] = "check"
    /\ IF available_tickets[selected_show_index[u]] >= 0
       THEN /\ upc' = [upc EXCEPT ![u] = "process"]
            /\ UNCHANGED <<outcome, sold_out_log>>
       ELSE /\ upc' = [upc EXCEPT ![u] = "unlock"]
            /\ outcome' = [outcome EXCEPT ![u] = "sold_out"]
            /\ sold_out_log' = [sold_out_log EXCEPT ![selected_show_index[u]] = @ + 1]
    /\ UNCHANGED <<mainvars, globals, semvars, showvars, selected_show_index,
                   selected_log, booked_log>>

(* Mutant of CheckTickets: the sold-out branch leaves without unlocking.    *)
CheckTickets_SkipUnlock(u) ==
    /\ Alive
    /\ upc[u] = "check"
    /\ IF available_tickets[selected_show_index[u]] > 0
       THEN /\ upc' = [upc EXCEPT ![u] = "process"]
            /\ UNCHANGED <<outcome, sold_out_log>>
       ELSE /\ upc' = [upc EXCEPT ![u] = "sem_post"]
            /\ outcome' = [outcome EXCEPT ![u] = "sold_out"]
            /\ sold_out_log' = [sold_out_log EXCEPT ![selected_show_index[u]] = @ + 1]
    /\ UNCHANGED <<mainvars, globals, semvars, showvars, selected_show_index,
                   selected_log, booked_log>>

(* if (shows[selected_show_index].available_tickets > 0) { ... usleep ...  *)
(* } else { "SOLD OUT" }                                                   *)
CheckTickets(u) ==
    /\ Alive
    /\ upc[u] = "check"
    /\ IF available_tickets[selected_show_index[u]] > 0
       THEN /\ upc' = [upc EXCEPT ![u] = "process"]
            /\ UNCHANGED <<outcome, sold_out_log>>
       ELSE /\ upc' = [upc EXCEPT ![u] = "unlock"]
            /\ outcome' = [outcome EXCEPT ![u] = "sold_out"]
            /\ sold_out_log' = [sold_out_log EXCEPT ![selected_show_index[u]] = @ + 1]
    /\ UNCHANGED <<mainvars, globals, semvars, showvars, selected_show_index,
                   selected_log, booked_log>>

(* Mutant of BookTicket: success is printed but the decrement is missing.  *)
BookTicket_NoDecrement(u) ==
    /\ Alive
    /\ upc[u] = "process"
    /\ outcome' = [outcome EXCEPT ![u] = "booked"]
    /\ booked_log' = [booked_log EXCEPT ![selected_show_index[u]] = @ + 1]
    /\ upc' = [upc EXCEPT ![u] = "unlock"]
    /\ UNCHANGED <<mainvars, globals, semvars, showvars,
                   selected_show_index, selected_log, sold_out_log>>

(* Mutant of BookTicket: one booking takes two tickets.                     *)
BookTicket_DecrementTwice(u) ==
    /\ Alive
    /\ upc[u] = "process"
    /\ available_tickets' =
         [available_tickets EXCEPT ![selected_show_index[u]] = @ - 2]
    /\ outcome' = [outcome EXCEPT ![u] = "booked"]
    /\ booked_log' = [booked_log EXCEPT ![selected_show_index[u]] = @ + 1]
    /\ upc' = [upc EXCEPT ![u] = "unlock"]
    /\ UNCHANGED <<mainvars, globals, semvars, shows_mem, show_id,
                   initial_tickets, mutex_state, mutex_owner,
                   selected_show_index, selected_log, sold_out_log>>

(* Mutant of BookTicket: the ticket is taken from the first show whatever  *)
(* show was selected.                                                      *)
BookTicket_FirstShow(u) ==
    /\ Alive
    /\ upc[u] = "process"
    /\ available_tickets' = [available_tickets EXCEPT ![1] = @ - 1]
    /\ outcome' = [outcome EXCEPT ![u] = "booked"]
    /\ booked_log' = [booked_log EXCEPT ![selected_show_index[u]] = @ + 1]
    /\ upc' = [upc EXCEPT ![u] = "unlock"]
    /\ UNCHANGED <<mainvars, globals, semvars, shows_mem, show_id,
                   initial_tickets, mutex_state, mutex_owner,
                   selected_show_index, selected_log, sold_out_log>>

(* After the usleep: shows[selected_show_index].available_tickets--;       *)
(* "BOOKING SUCCESSFUL"                                                    *)
BookTicket(u) ==
    /\ Alive
    /\ upc[u] = "process"
    /\ available_tickets' =
         [available_tickets EXCEPT ![selected_show_index[u]] = @ - 1]
    /\ outcome' = [outcome EXCEPT ![u] = "booked"]
    /\ booked_log' = [booked_log EXCEPT ![selected_show_index[u]] = @ + 1]
    /\ upc' = [upc EXCEPT ![u] = "unlock"]
    /\ UNCHANGED <<mainvars, globals, semvars, shows_mem, show_id,
                   initial_tickets, mutex_state, mutex_owner,
                   selected_show_index, selected_log, sold_out_log>>

(* pthread_mutex_unlock(&shows[selected_show_index].mutex)                 *)
MutexUnlock(u) ==
    /\ Alive
    /\ upc[u] = "unlock"
    /\ mutex_owner' = [mutex_owner EXCEPT ![selected_show_index[u]] = 0]
    /\ upc' = [upc EXCEPT ![u] = "sem_post"]
    /\ UNCHANGED <<mainvars, globals, semvars, shows_mem, show_id,
                   available_tickets, initial_tickets, mutex_state,
                   selected_show_index, outcome, stdout>>

(* Mutant of SemPost: the permit is returned only after a booking.         *)
SemPost_OnlyWhenBooked(u) ==
    /\ Alive
    /\ upc[u] = "sem_post"
    /\ sem_value' = IF outcome[u] = "booked" THEN sem_value + 1 ELSE sem_value
    /\ upc' = [upc EXCEPT ![u] = "exit"]
    /\ UNCHANGED <<mainvars, globals, sem_state, showvars,
                   selected_show_index, outcome, stdout>>

(* sem_post(user_data->semaphore)                                          *)
SemPost(u) ==
    /\ Alive
    /\ upc[u] = "sem_post"
    /\ sem_value' = sem_value + 1
    /\ upc' = [upc EXCEPT ![u] = "exit"]
    /\ UNCHANGED <<mainvars, globals, sem_state, showvars,
                   selected_show_index, outcome, stdout>>

(* free(user_data); pthread_exit(NULL);  The thread's locals are gone;     *)
(* what it printed stays on stdout.                                        *)
ThreadExit(u) ==
    /\ Alive
    /\ upc[u] = "exit"
    /\ upc' = [upc EXCEPT ![u] = "done"]
    /\ selected_show_index' = [selected_show_index EXCEPT ![u] = 0]
    /\ outcome' = [outcome EXCEPT ![u] = "none"]
    /\ thread' = [thread EXCEPT ![u] = "terminated"]
    /\ UNCHANGED <<mpc, exit_code, mi, threads_mem, total_booked_tickets,
                   globals, semvars, showvars, stdout>>

book_ticket(u) ==
    \/ SelectShow(u)
    \/ SemWait(u)
    \/ MutexLock(u)
    \/ CheckTickets(u)
    \/ BookTicket(u)
    \/ MutexUnlock(u)
    \/ SemPost(u)
    \/ ThreadExit(u)

Next ==
    \/ Main
    \/ \E u \in Users : book_ticket(u)

Spec == Init /\ [][Next]_vars

(* The scheduler runs every runnable thread eventually: main and each user *)
(* thread take their next step if it stays possible.                       *)
FairSpec ==
    /\ Spec
    /\ WF_vars(Main)
    /\ \A u \in Users : WF_vars(book_ticket(u))

(***************************************************************************)
(* book_ticket when sem_wait or pthread_mutex_lock returns an error.  The  *)
(* code ignores both return values and goes on to the next statement.      *)
(***************************************************************************)

(* sem_wait(user_data->semaphore) returns -1: the count is not             *)
(* decremented; the return value is not looked at.                         *)
SemWaitFail(u) ==
    /\ Alive
    /\ upc[u] = "sem_wait"
    /\ upc' = [upc EXCEPT ![u] = "lock"]
    /\ UNCHANGED <<mainvars, globals, semvars, showvars,
                   selected_show_index, outcome, stdout>>

(* pthread_mutex_lock returns an error: the mutex is not acquired; the     *)
(* return value is not looked at.                                          *)
MutexLockFail(u) ==
    /\ Alive
    /\ upc[u] = "lock"
    /\ upc' = [upc EXCEPT ![u] = "check"]
    /\ UNCHANGED <<mainvars, globals, semvars, showvars,
                   selected_show_index, outcome, stdout>>

(* pthread_mutex_unlock by a thread that does not own the mutex is         *)
(* undefined for a default mutex: it either releases the mutex (the        *)
(* outcome MutexUnlock gives) or, here, returns an error and leaves it.    *)
MutexUnlockNotOwner(u) ==
    /\ Alive
    /\ upc[u] = "unlock"
    /\ mutex_owner[selected_show_index[u]] # u
    /\ upc' = [upc EXCEPT ![u] = "sem_post"]
    /\ UNCHANGED <<mainvars, globals, semvars, showvars,
                   selected_show_index, outcome, stdout>>

book_ticket_acquire_fail(u) ==
    /\ u <= MaxFailing
    /\ \/ SemWaitFail(u)
       \/ MutexLockFail(u)
       \/ MutexUnlockNotOwner(u)

NextAcquireFail ==
    \/ Main
    \/ \E u \in Users : book_ticket(u)
    \/ \E u \in Users : book_ticket_acquire_fail(u)

SpecAcquireFail == Init /\ [][NextAcquireFail]_vars

(***************************************************************************)
(* Vocabulary of the properties                                            *)
(***************************************************************************)

Min(a, b) == IF a < b THEN a ELSE b
Max(a, b) == IF a > b THEN a ELSE b

RECURSIVE SumTo(_, _)
(* f[1] + ... + f[n]                                                       *)
SumTo(f, n) == IF n <= 0 THEN 0 ELSE SumTo(f, n - 1) + f[n]

(* The user threads that were created.                                     *)
Spawned == {u \in Users : upc[u] # "none"}

(* The user threads past sem_wait and not yet past sem_post.               *)
HoldingPermit ==
    {u \in Users : upc[u] \in {"lock", "check", "process", "unlock", "sem_post"}}

(* The user threads between pthread_mutex_lock and pthread_mutex_unlock of *)
(* show i.                                                                 *)
InCritical(i) ==
    {u \in Users : upc[u] \in {"check", "process", "unlock"}
                   /\ selected_show_index[u] = i}

(* The user threads blocked in pthread_mutex_lock of show i.               *)
WaitingLock(i) ==
    {u \in Users : upc[u] = "lock" /\ selected_show_index[u] = i}

(* The creation loop is over and every created thread has terminated.      *)
AllTerminated ==
    /\ \/ mpc \in {"join", "report", "cleanup", "crashed"}
       \/ mpc = "exited" /\ exit_code = 0
    /\ \A u \in Users : upc[u] \in {"none", "done"}

TotalBooked == SumTo(booked_log, total_shows)
TotalSoldOut == SumTo(sold_out_log, total_shows)

(***************************************************************************)
(* C1: in every reachable state every show has                             *)
(* 0 <= available_tickets <= initial_tickets, and the number of successful *)
(* bookings of a show never exceeds its capacity.                          *)
(***************************************************************************)
C1_AvailableInRange ==
    \A i \in ShowIdx :
        /\ 0 <= available_tickets[i]
        /\ available_tickets[i] <= initial_tickets[i]
        /\ booked_log[i] <= initial_tickets[i]

(* More threads chose a show than it has tickets: it is sold out, one      *)
(* thread was turned away and another is about to be.                      *)
C1_Witness ==
    \E i \in ShowIdx :
        /\ initial_tickets[i] > 0
        /\ available_tickets[i] = 0
        /\ booked_log[i] = initial_tickets[i]
        /\ sold_out_log[i] > 0
        /\ \E u \in Users : upc[u] = "check" /\ selected_show_index[u] = i

(***************************************************************************)
(* C2: at most concurrent_limit (3) user threads are past sem_wait and     *)
(* before sem_post.                                                        *)
(***************************************************************************)
C2_AdmissionCap == Cardinality(HoldingPermit) <= concurrent_limit

(* Three threads hold the permits and a fourth is blocked in sem_wait.     *)
C2_Witness ==
    /\ Cardinality(HoldingPermit) = concurrent_limit
    /\ sem_value = 0
    /\ \E u \in Users : upc[u] = "sem_wait"

(***************************************************************************)
(* C3: per show at most one thread is between lock and unlock, and it owns *)
(* the mutex; available_tickets of a show changes only in a step of the    *)
(* thread that owns the show's mutex; while a thread is in the simulated   *)
(* delay between its check and its decrement it keeps the mutex and the    *)
(* show's available_tickets does not change.                               *)
(***************************************************************************)
C3_MutexHeld ==
    \A i \in ShowIdx :
        /\ Cardinality(InCritical(i)) <= 1
        /\ \A u \in InCritical(i) : mutex_owner[i] = u

C3_WriteUnderLock ==
    \A i \in ShowIdx :
        (mpc \notin {"init_show"} /\ available_tickets'[i] # available_tickets[i])
            => \E u \in Users : /\ mutex_owner[i] = u
                                /\ selected_show_index[u] = i
                                /\ upc[u] = "process"
                                /\ upc'[u] = "unlock"

C3_HeldAcrossDelay ==
    \A u \in Users :
        (upc[u] = "process" /\ upc'[u] = "process")
            => /\ mutex_owner'[selected_show_index[u]] = u
               /\ available_tickets'[selected_show_index[u]]
                    = available_tickets[selected_show_index[u]]
               /\ available_tickets[selected_show_index[u]] > 0

C3_MutualExclusion ==
    /\ []C3_MutexHeld
    /\ [][C3_WriteUnderLock /\ C3_HeldAcrossDelay]_vars

(* A thread is in the delay holding the mutex of a show while another      *)
(* thread, holding a permit, waits for the same mutex.                     *)
C3_Witness ==
    \E i \in ShowIdx, u, v \in Users :
        /\ u # v
        /\ upc[u] = "process" /\ selected_show_index[u] = i
        /\ mutex_owner[i] = u
        /\ v \in WaitingLock(i)

(***************************************************************************)
(* C4: no decrement is lost: in every reachable state the sum over the     *)
(* shows of initial_tickets - available_tickets equals the number of       *)
(* "booked" outcomes printed, show by show and in total.                   *)
(***************************************************************************)
C4_NoLostDecrement ==
    /\ \A i \in ShowIdx : initial_tickets[i] - available_tickets[i] = booked_log[i]
    /\ SumBooked(total_shows) = TotalBooked
    /\ total_booked_tickets # -1 => total_booked_tickets = TotalBooked

(* The run is over, two shows both sold tickets, and the final report      *)
(* carries the total.                                                      *)
C4_Witness ==
    /\ AllTerminated
    /\ mpc = "exited"
    /\ total_booked_tickets >= 3
    /\ \E i, j \in ShowIdx : i # j /\ booked_log[i] > 0 /\ booked_log[j] > 0

(***************************************************************************)
(* C5: with a single show of capacity C and N user threads, once all       *)
(* threads have terminated min(N, C) of them are booked, the other         *)
(* N - min(N, C) are sold-out and available_tickets = C - min(N, C).       *)
(* N is the number of threads that ran.                                    *)
(***************************************************************************)
C5_SingleShow ==
    (AllTerminated /\ total_shows = 1) =>
        LET N == Cardinality(Spawned)
            C == initial_tickets[1]
        IN  /\ booked_log[1] = Min(N, C)
            /\ sold_out_log[1] = N - Min(N, C)
            /\ available_tickets[1] = C - Min(N, C)

(* One show with one ticket and MaxUsers threads, all of them run to the   *)
(* end: one booked, the others sold-out.                                   *)
C5_Witness ==
    /\ AllTerminated
    /\ total_shows = 1
    /\ initial_tickets[1] = 1
    /\ Cardinality(Spawned) = MaxUsers
    /\ booked_log[1] = 1
    /\ sold_out_log[1] = MaxUsers - 1
    /\ available_tickets[1] = 0

(***************************************************************************)
(* C6 as stated, at the scale of the model: with at least two shows and    *)
(* more user threads than tickets in total, all of them created, whatever  *)
(* show each thread selects, the total number of "booked" outcomes once    *)
(* all threads have terminated equals the sum of the capacities.           *)
(***************************************************************************)
C6_Stated ==
    (/\ AllTerminated
     /\ total_shows >= 2
     /\ Cardinality(Spawned) = total_users
     /\ total_users > total_shows * total_tickets_per_show)
        => TotalBooked = total_shows * total_tickets_per_show

RECURSIVE SumMinSelected(_)
(* Sum over shows 1..n of min(initial_tickets, number of selections)       *)
SumMinSelected(n) ==
    IF n <= 0 THEN 0
    ELSE SumMinSelected(n - 1) + Min(initial_tickets[n], selected_log[n])

(***************************************************************************)
(* C6 amended: once all threads have terminated the total number of        *)
(* "booked" outcomes equals the sum over the shows of                      *)
(* min(capacity, number of threads that selected the show); it never       *)
(* exceeds the sum of the capacities and equals it exactly when every show *)
(* was selected by at least capacity threads.                              *)
(***************************************************************************)
C6_BookedBySelection ==
    AllTerminated =>
        /\ TotalBooked = SumMinSelected(total_shows)
        /\ TotalBooked <= total_shows * total_tickets_per_show
        /\ (TotalBooked = total_shows * total_tickets_per_show)
             <=> (\A i \in 1..total_shows : selected_log[i] >= initial_tickets[i])

(* Two shows, more threads than tickets, every thread selected the same    *)
(* show: the total booked stays below the sum of the capacities.           *)
C6_Witness ==
    /\ AllTerminated
    /\ total_shows = 2
    /\ Cardinality(Spawned) = total_users
    /\ total_users > total_shows * total_tickets_per_show
    /\ selected_log[1] = total_users
    /\ TotalBooked = total_tickets_per_show
    /\ TotalBooked < total_shows * total_tickets_per_show

(***************************************************************************)
(* C7: the final state depends only on the selections: once all threads    *)
(* have terminated every show has                                          *)
(* available_tickets = max(0, capacity - number of threads that selected   *)
(* it); a show selected by at least capacity threads ends with 0.          *)
(***************************************************************************)
C7_FinalBySelection ==
    AllTerminated =>
        \A i \in 1..total_shows :
            /\ available_tickets[i] = Max(0, initial_tickets[i] - selected_log[i])
            /\ selected_log[i] >= initial_tickets[i] => available_tickets[i] = 0

(* One show was selected by more threads than it has tickets and ends      *)
(* with 0, another by fewer and keeps the rest.                            *)
C7_Witness ==
    /\ AllTerminated
    /\ \E i, j \in 1..total_shows :
        /\ selected_log[i] > initial_tickets[i]
        /\ available_tickets[i] = 0
        /\ selected_log[j] > 0
        /\ selected_log[j] < initial_tickets[j]
        /\ available_tickets[j] = initial_tickets[j] - selected_log[j]

(***************************************************************************)
(* C8 as stated: under fair scheduling every created user thread           *)
(* eventually terminates, and main's join loop, once entered, eventually   *)
(* completes.                                                              *)
(***************************************************************************)
C8_Stated ==
    /\ \A u \in Users : (upc[u] # "none") ~> (upc[u] = "done")
    /\ (mpc = "join") ~> (mpc = "report")

(***************************************************************************)
(* C9 as stated, in the case it is about: a thread that has selected show  *)
(* i, where no thread holds the mutex of i and every other thread is on a  *)
(* different show, can take its next step.                                 *)
(***************************************************************************)
C9_Stated ==
    \A u \in Users :
        (/\ Alive
         /\ upc[u] \in {"sem_wait", "lock"}
         /\ mutex_owner[selected_show_index[u]] = 0
         /\ \A v \in Users \ {u} : selected_show_index[v] # selected_show_index[u])
            => ENABLED book_ticket(u)

(***************************************************************************)
(* C9 amended: a thread that holds an admission permit and is at the lock  *)
(* of show i, where no thread holds the mutex of i, can take the lock,     *)
(* however many threads hold or wait for the mutexes of other shows.  (A   *)
(* thread still in sem_wait can be blocked by three permit holders that    *)
(* all contend for another show.)                                          *)
(***************************************************************************)
C9_LockNotBlockedByOtherShow ==
    \A u \in Users :
        (/\ Alive
         /\ upc[u] = "lock"
         /\ mutex_owner[selected_show_index[u]] = 0)
            => ENABLED MutexLock(u)

(* A thread is at the free lock of one show while another show's mutex is  *)
(* held by a second thread and awaited by a third.                         *)
C9_Witness ==
    \E u, v, w \in Users, i, j \in ShowIdx :
        /\ Alive
        /\ i # j
        /\ upc[u] = "lock" /\ selected_show_index[u] = i
        /\ mutex_owner[i] = 0
        /\ mutex_owner[j] = v
        /\ w \in WaitingLock(j)

(***************************************************************************)
(* C10: every thread that acquired a permit releases it exactly once, on   *)
(* the booked and on the sold-out path: the semaphore's count never        *)
(* exceeds concurrent_limit, the count plus the number of threads between  *)
(* sem_wait and sem_post is concurrent_limit, and when all threads have    *)
(* terminated the count is concurrent_limit again.                         *)
(***************************************************************************)
C10_PermitsConserved ==
    sem_state # "uninit" =>
        /\ sem_value <= concurrent_limit
        /\ sem_value + Cardinality(HoldingPermit) = concurrent_limit
        /\ AllTerminated => sem_value = concurrent_limit

(* All threads have terminated, some were booked and some sold-out, and    *)
(* the count is back at concurrent_limit.                                  *)
C10_Witness ==
    /\ AllTerminated
    /\ Cardinality(Spawned) > concurrent_limit
    /\ TotalBooked > 0
    /\ TotalSoldOut > 0
    /\ sem_value = concurrent_limit

(***************************************************************************)
(* Vocabulary of the properties about main                                 *)
(***************************************************************************)

(* The string is the decimal numeral of a positive integer.                *)
IsPositiveInteger(str) ==
    /\ Len(str) >= 1
    /\ \A k \in 1..Len(str) : IsDigit(str[k])
    /\ AtoiDigits(str, 1, 0) > 0

(* The command line has three arguments, each a positive integer.          *)
ValidInput ==
    /\ Len(argv) = 3
    /\ \A k \in 1..3 : IsPositiveInteger(argv[k])

(* Nothing was allocated or initialised, no thread was created.            *)
NothingAllocated ==
    /\ sem_state = "uninit"
    /\ shows_mem = "null"
    /\ \A i \in ShowIdx : mutex_state[i] = "uninit"
    /\ threads_mem = "null"
    /\ Spawned = {}

(***************************************************************************)
(* C11 as stated: on invalid command-line input (an argument count other   *)
(* than three, or an argument that is not a positive integer) the run ends *)
(* with exit code 1 and nothing was allocated: the semaphore is never      *)
(* initialised, no show or mutex is created, no thread is created.         *)
(***************************************************************************)
C11_Stated ==
    (mpc # "parse_args" /\ ~ValidInput) =>
        /\ mpc = "exited"
        /\ exit_code = 1
        /\ NothingAllocated

(***************************************************************************)
(* C12 as stated: when the run ends with exit code 1 after a failed        *)
(* initialisation (sem_init, the malloc of shows, a pthread_mutex_init,    *)
(* the malloc of threads), every mutex initialised so far has been         *)
(* destroyed and the semaphore, if initialised, has been destroyed.        *)
(***************************************************************************)
C12_Stated ==
    (mpc = "exited" /\ exit_code = 1) =>
        /\ \A i \in ShowIdx : mutex_state[i] # "init"
        /\ sem_state # "init"

(***************************************************************************)
(* C13 as stated: when the creation of a user thread fails the run is not  *)
(* aborted, and main's join loop never calls pthread_join on the handle of *)
(* a thread that was not created.                                          *)
(***************************************************************************)
C13_Stated ==
    /\ mpc # "crashed"
    /\ (mpc = "join" /\ mi < total_users) => thread[mi + 1] # "unset"

(***************************************************************************)
(* C14: the semaphore and the mutex of every show are initialised before   *)
(* the first user thread is created; a thread takes a permit (sem_wait     *)
(* decrements the count) only while the semaphore is initialised, never    *)
(* before sem_init or after sem_destroy; and when sem_init fails main      *)
(* exits with code 1 and no thread is ever created.                        *)
(***************************************************************************)
C14_InitBeforeSpawn ==
    [][/\ Spawned' # {} =>
            /\ sem_state' # "uninit"
            /\ \A i \in 1..total_shows' : mutex_state'[i] # "uninit"
       /\ sem_value' < sem_value => sem_state = "init" /\ sem_state' = "init"
       /\ \A u \in Users :
            upc'[u] \in {"lock", "check", "process", "unlock"}
                => sem_state' = "init"
       /\ (mpc = "sem_init" /\ sem_state' # "init") =>
            /\ mpc' = "exited"
            /\ exit_code' = 1
            /\ Spawned' = {}
       /\ (mpc = "exited" /\ sem_state = "uninit") => Spawned' = {}
      ]_vars

(* A thread holds a permit of the initialised semaphore while main is      *)
(* still creating threads, every show's mutex being initialised.           *)
C14_Witness ==
    /\ mpc = "create"
    /\ sem_state = "init"
    /\ total_shows = 2
    /\ \A i \in 1..total_shows : mutex_state[i] = "init"
    /\ \E u \in Users : upc[u] = "lock" /\ sem_value = concurrent_limit - 1

(* Main has read the final state of the shows or torn something down.      *)
ReportedOrTornDown ==
    \/ mpc \in {"report", "cleanup"}
    \/ total_booked_tickets # -1
    \/ sem_state = "destroyed"
    \/ shows_mem = "freed"
    \/ \E i \in ShowIdx : mutex_state[i] = "destroyed"

(***************************************************************************)
(* C15: main reads the final state of the shows (display_final_status) and *)
(* destroys the mutexes and the semaphore and frees shows only after every *)
(* created thread has terminated, also when a pthread_join returned an     *)
(* error.                                                                  *)
(***************************************************************************)
C15_TeardownAfterWorkers ==
    ReportedOrTornDown => \A u \in Users : upc[u] \in {"none", "done"}

(* The run ended with everything torn down after a pthread_join returned   *)
(* an error (a handle is still unset) and two created threads terminated.  *)
C15_Witness ==
    /\ mpc = "exited"
    /\ exit_code = 0
    /\ sem_state = "destroyed"
    /\ total_booked_tickets >= 1
    /\ \E u \in Users : u <= total_users /\ thread[u] = "unset"
    /\ Cardinality({u \in Users : upc[u] = "done"}) >= 2

(* The steps of book_ticket in the order of the code.                      *)
StepOrder ==
    {<<"select", "sem_wait">>, <<"sem_wait", "lock">>, <<"lock", "check">>,
     <<"check", "process">>, <<"check", "unlock">>, <<"process", "unlock">>,
     <<"unlock", "sem_post">>, <<"sem_post", "exit">>, <<"exit", "done">>}

(* Thread u takes a step of book_ticket.                                   *)
WorkerStep(u) == upc[u] # "none" /\ upc'[u] # upc[u]

(***************************************************************************)
(* C16: every user thread goes through select, sem_wait, mutex lock, the   *)
(* check with its optional decrement, mutex unlock, sem_post, exit, in     *)
(* this order, each once; its selected show does not change from the       *)
(* selection to the sem_post; the mutex it unlocks is the one it locked    *)
(* and owns; and a thread owns a mutex only between its lock and its       *)
(* unlock, never after it terminated.                                      *)
(***************************************************************************)
C16_ProtocolOrder ==
    [][\A u \in Users :
        /\ WorkerStep(u) => <<upc[u], upc'[u]>> \in StepOrder
        /\ upc[u] \in {"sem_wait", "lock", "check", "process", "unlock",
                       "sem_post"}
             => selected_show_index'[u] = selected_show_index[u]
        /\ (upc[u] = "lock" /\ upc'[u] = "check")
             => /\ mutex_owner[selected_show_index[u]] = 0
                /\ mutex_owner'[selected_show_index[u]] = u
        /\ (upc[u] = "unlock" /\ upc'[u] = "sem_post")
             => /\ mutex_owner[selected_show_index[u]] = u
                /\ mutex_owner' =
                     [mutex_owner EXCEPT ![selected_show_index[u]] = 0]
        /\ \A i \in ShowIdx :
             mutex_owner'[i] = u
                => /\ upc'[u] \in {"check", "process", "unlock"}
                   /\ selected_show_index'[u] = i
      ]_vars

(* One thread has booked, unlocked and returned its permit and owns no     *)
(* mutex; another has terminated; a third is about to unlock the mutex it  *)
(* owns.                                                                   *)
C16_Witness ==
    /\ \E u \in Users :
        /\ upc[u] = "exit"
        /\ outcome[u] = "booked"
        /\ \A i \in ShowIdx : mutex_owner[i] # u
    /\ \E u \in Users : upc[u] = "done"
    /\ \E u \in Users :
        upc[u] = "unlock" /\ mutex_owner[selected_show_index[u]] = u

(***************************************************************************)
(* C17: for every show created by initialize_shows, every step leaves its  *)
(* available_tickets unchanged or decreases it by exactly 1; it never      *)
(* increases; and each decrease by 1 is the booking of exactly one thread  *)
(* that selected this show (one "BOOKING SUCCESSFUL"), and conversely.     *)
(***************************************************************************)
C17_DecreaseByOnePerBooking ==
    [][\A i \in ShowIdx :
        mutex_state[i] # "uninit" =>
            \/ /\ available_tickets'[i] = available_tickets[i]
               /\ booked_log'[i] = booked_log[i]
            \/ /\ available_tickets'[i] = available_tickets[i] - 1
               /\ booked_log'[i] = booked_log[i] + 1
               /\ Cardinality({u \in Users :
                     /\ upc[u] = "process" /\ upc'[u] = "unlock"
                     /\ selected_show_index[u] = i
                     /\ outcome'[u] = "booked"}) = 1
               /\ Cardinality({u \in Users : WorkerStep(u)}) = 1
      ]_vars

(* A show has gone down by two tickets, with two bookings printed.         *)
C17_Witness ==
    \E i \in ShowIdx :
        /\ mutex_state[i] = "init"
        /\ initial_tickets[i] = 2
        /\ available_tickets[i] = 0
        /\ booked_log[i] = 2

(***************************************************************************)
(* C18: a thread that finds available_tickets == 0 on its selected show    *)
(* while it holds the mutex prints SOLD OUT and goes to the unlock; none   *)
(* of its steps from there on changes any show's available_tickets; and a  *)
(* created show whose available_tickets is 0 keeps 0, gets no further      *)
(* booking, and every thread that checks it gets the sold-out outcome.     *)
(***************************************************************************)
C18_SoldOutNoMutation ==
    [][/\ \A u \in Users :
            /\ (upc[u] = "check" /\ WorkerStep(u)
                    /\ available_tickets[selected_show_index[u]] = 0)
                 => /\ upc'[u] = "unlock"
                    /\ outcome'[u] = "sold_out"
                    /\ sold_out_log'[selected_show_index[u]] =
                         sold_out_log[selected_show_index[u]] + 1
                    /\ available_tickets' = available_tickets
                    /\ booked_log' = booked_log
            /\ (outcome[u] = "sold_out" /\ WorkerStep(u))
                 => /\ available_tickets' = available_tickets
                    /\ booked_log' = booked_log
                    /\ outcome'[u] \in {"sold_out", "none"}
       /\ \A i \in ShowIdx :
            (mutex_state[i] = "init" /\ available_tickets[i] = 0)
                 => /\ available_tickets'[i] = 0
                    /\ booked_log'[i] = booked_log[i]
                    /\ \A u \in Users :
                         (selected_show_index[u] = i /\ upc[u] = "check")
                            => upc'[u] # "process"
      ]_vars

(* A thread got the sold-out outcome on a show that is at 0, the second    *)
(* thread to do so, and is past the unlock.                                *)
C18_Witness ==
    \E u \in Users :
        /\ outcome[u] = "sold_out"
        /\ upc[u] = "sem_post"
        /\ available_tickets[selected_show_index[u]] = 0
        /\ sold_out_log[selected_show_index[u]] >= 2
        /\ booked_log[selected_show_index[u]] =
             initial_tickets[selected_show_index[u]]

(***************************************************************************)
(* C19: a step of a user thread changes nothing in the shows array except  *)
(* the available_tickets of the show the thread selected: the              *)
(* available_tickets of every other show, and show_id and initial_tickets  *)
(* of every show, are unchanged; and in every state each created show has  *)
(* the initial_tickets and show_id initialize_shows gave it.               *)
(***************************************************************************)
C19_OnlySelectedAvailable ==
    [][/\ \A u \in Users :
            WorkerStep(u) =>
                /\ show_id' = show_id
                /\ initial_tickets' = initial_tickets
                /\ mutex_state' = mutex_state
                /\ shows_mem' = shows_mem
                /\ \A i \in ShowIdx :
                     i # selected_show_index[u]
                        => available_tickets'[i] = available_tickets[i]
       /\ \A i \in ShowIdx :
            mutex_state'[i] = "init" =>
                /\ initial_tickets'[i] = total_tickets_per_show'
                /\ show_id'[i] = i
      ]_vars

(* A thread booked a ticket of show 2; show 1, which another thread        *)
(* selected, is untouched.                                                 *)
C19_Witness ==
    /\ \E u \in Users :
        /\ upc[u] = "unlock"
        /\ outcome[u] = "booked"
        /\ selected_show_index[u] = 2
    /\ available_tickets[2] = initial_tickets[2] - 1
    /\ available_tickets[1] = initial_tickets[1]
    /\ selected_log[1] >= 1
    /\ show_id[1] = 1 /\ show_id[2] = 2

(***************************************************************************)
(* C20 as stated: a thread whose sem_wait or pthread_mutex_lock returns an *)
(* error abandons the attempt: it goes to its exit without entering the    *)
(* critical section, without changing available_tickets, without           *)
(* unlocking a mutex or posting a permit it does not hold; so at most      *)
(* concurrent_limit threads are between sem_wait and sem_post, the count   *)
(* of the semaphore never exceeds concurrent_limit, and a mutex is         *)
(* released only by its owner.                                             *)
(***************************************************************************)
C20_Stated ==
    [][/\ \A u \in Users :
            /\ (upc[u] = "sem_wait" /\ WorkerStep(u)
                    /\ sem_value' = sem_value)
                 => upc'[u] \in {"exit", "done"}
            /\ (upc[u] = "lock" /\ WorkerStep(u)
                    /\ mutex_owner'[selected_show_index[u]] # u)
                 => upc'[u] \in {"sem_post", "exit", "done"}
            /\ (upc[u] = "unlock" /\ WorkerStep(u))
                 => mutex_owner[selected_show_index[u]] = u
       /\ Cardinality(HoldingPermit') <= concurrent_limit
       /\ sem_value' <= concurrent_limit
      ]_vars

(* display_final_status has printed the report.                            *)
Reported == total_booked_tickets # -1

(* The users whose thread was not created (the error printed by the        *)
(* creation loop).                                                         *)
SpawnErrors == {u \in 1..total_users : thread[u] = "unset"}

LockHolders == {u \in Users : \E i \in ShowIdx : mutex_owner[i] = u}

(* The user threads blocked in pthread_mutex_lock.                         *)
LockWaiters == {u \in Users : upc[u] = "lock"}

(* The shows whose mutex is owned.                                         *)
LockedShows == {i \in ShowIdx : mutex_owner[i] # 0}

(***************************************************************************)
(* C22: the mutexes are nested inside the semaphore: every thread that     *)
(* owns or waits for a show's mutex has taken a permit and not returned it *)
(* (so these threads are at most as many as the permits taken from the     *)
(* semaphore); each thread owns at most one mutex; so at most              *)
(* min(concurrent_limit, total_shows) mutexes are owned at the same time   *)
(* and at most concurrent_limit threads own or wait for a mutex.           *)
(***************************************************************************)
C22_LocksInsidePermits ==
    /\ LockHolders \cup LockWaiters \subseteq HoldingPermit
    /\ sem_state # "uninit" =>
         /\ Cardinality(LockHolders \cup LockWaiters)
               <= concurrent_limit - sem_value
         /\ Cardinality(LockedShows) <= Min(concurrent_limit, total_shows)
    /\ \A u \in Users :
         Cardinality({i \in ShowIdx : mutex_owner[i] = u}) <= 1
    /\ Cardinality(LockedShows) = Cardinality(LockHolders)
    /\ Cardinality(LockedShows) <= concurrent_limit
    /\ Cardinality(LockHolders \cup LockWaiters) <= concurrent_limit

(* All concurrent_limit permits are taken by threads that own or wait for  *)
(* a mutex: every show's mutex is owned, a thread waits for one of them,   *)
(* and a further thread is blocked in sem_wait.                            *)
C22_Witness ==
    /\ total_shows = 2
    /\ Cardinality(LockedShows) = Min(concurrent_limit, total_shows)
    /\ Cardinality(LockHolders \cup LockWaiters) = concurrent_limit
    /\ LockWaiters # {}
    /\ sem_value = 0
    /\ \E u \in Users : upc[u] = "sem_wait"

====
